---- MODULE Spec2Model ----
(***************************************************************************)
(* A model of bolttools/common.py: the raw-value conversion, the sorting   *)
(* strategies, the 1D/2D lookup tables and BOLTSParameters (construction,  *)
(* collect, union).                                                        *)
(*                                                                         *)
(* Python strings whose characters matter (table keys, raw cell values)    *)
(* are sequences of one-character strings; parameter names, type names and *)
(* descriptions are only compared for equality and are TLA+ strings.       *)
(* Python floats are integers scaled by Scale (two decimal digits).        *)
(* Python objects that a name can be rebound to or that can be updated in  *)
(* place (dicts, lists) live in `heap`; an instance is a record of         *)
(* addresses into it.                                                      *)
(***************************************************************************)
EXTENDS Integers, Sequences, FiniteSets, TLC

VARIABLES heap, slot, decl, call, out

vars == <<heap, slot, decl, call, out>>

(***************************************************************************)
(* Bounds of the model.                                                    *)
(***************************************************************************)
\* the longest `tables` list of a declaration
MaxTables == 2

\* floats are held as integers in units of 1/Scale
Scale == 10 * 10

(***************************************************************************)
(* Generic helpers.                                                        *)
(***************************************************************************)
EmptyMap == [x \in {} |-> x]

\* dict.update: g overlaid on f
Update(f, g) ==
    [x \in (DOMAIN f) \cup (DOMAIN g) |-> IF x \in DOMAIN g THEN g[x] ELSE f[x]]

Range(s) == {s[i] : i \in DOMAIN s}

RECURSIVE Flatten(_)
Flatten(ss) == IF ss = <<>> THEN <<>> ELSE Head(ss) \o Flatten(Tail(ss))

\* the index of the first occurrence of x in s (list.index), 0 when absent
IndexOf(s, x) ==
    IF \E i \in DOMAIN s : s[i] = x
    THEN CHOOSE i \in DOMAIN s : s[i] = x /\ \A j \in 1..(i - 1) : s[j] # x
    ELSE 0

\* all sequences over the set S of length at most n
RECURSIVE SeqsUpTo(_, _)
SeqsUpTo(S, n) ==
    IF n = 0 THEN {<<>>}
    ELSE LET shorter == SeqsUpTo(S, n - 1)
         IN shorter \cup {Append(s, x) : s \in shorter, x \in S}

(***************************************************************************)
(* Python values.  Every value is a record of the same shape, so that any  *)
(* two values can be compared: k is the Python type, s the characters of a *)
(* str, n the scaled number (or 0/1 for a bool).                           *)
(***************************************************************************)
NoneV == [k |-> "none", s |-> <<>>, n |-> 0]
Str(cs) == [k |-> "str", s |-> cs, n |-> 0]
Num(x) == [k |-> "num", s |-> <<>>, n |-> x]
Bool(b) == [k |-> "bool", s |-> <<>>, n |-> IF b THEN 1 ELSE 0]

\* a whole number as a float
Whole(i) == Num(i * Scale)

sNone == <<"N", "o", "n", "e">>
sTrue == <<"t", "r", "u", "e">>
sFalse == <<"f", "a", "l", "s", "e">>

\* an exception: its class and the arguments it was raised with
Exc(class, args) == [exc |-> class, args |-> args]
NoExc == Exc("", <<>>)

Digits == {"0", "1", "2", "3", "4", "5", "6", "7", "8", "9"}

DigitVal(c) ==
    CASE c = "0" -> 0 [] c = "1" -> 1 [] c = "2" -> 2 [] c = "3" -> 3
      [] c = "4" -> 4 [] c = "5" -> 5 [] c = "6" -> 6 [] c = "7" -> 7
      [] c = "8" -> 8 [] c = "9" -> 9

\* the byte value Python 2 compares str characters by
Ord(c) ==
    CASE c = "-" -> 45 [] c = "." -> 46
      [] c \in Digits -> 48 + DigitVal(c)
      [] c = "M" -> 77 [] c = "N" -> 78
      [] c = "a" -> 97 [] c = "b" -> 98 [] c = "c" -> 99 [] c = "e" -> 101
      [] c = "f" -> 102 [] c = "l" -> 108 [] c = "n" -> 110 [] c = "o" -> 111
      [] c = "r" -> 114 [] c = "s" -> 115 [] c = "t" -> 116 [] c = "u" -> 117
      [] c = "x" -> 120 [] c = "z" -> 122

RECURSIVE DigitsToInt(_)
DigitsToInt(ds) ==
    IF ds = <<>> THEN 0
    ELSE 10 * DigitsToInt(SubSeq(ds, 1, Len(ds) - 1)) + DigitVal(ds[Len(ds)])

\* the length of the longest prefix of s whose characters are all in S
RECURSIVE Span(_, _)
Span(s, S) ==
    IF s = <<>> \/ Head(s) \notin S THEN 0 ELSE 1 + Span(Tail(s), S)

Drop(s, n) == SubSeq(s, n + 1, Len(s))
Take(s, n) == SubSeq(s, 1, n)

\* the fractional digits fs as a count of 1/Scale (two digits are kept)
FracVal(fs) == DigitsToInt(Take(fs \o <<"0", "0">>, 2))

\* the first index of the sequence rs whose entry is not ok, 0 when all are
FirstNotOk(rs) ==
    IF \A i \in DOMAIN rs : rs[i].ok THEN 0
    ELSE CHOOSE i \in DOMAIN rs : ~rs[i].ok /\ \A j \in 1..(i - 1) : rs[j].ok

\* the first non-empty set of the sequence ss, {} when all are empty
FirstNonEmpty(ss) ==
    IF \A i \in DOMAIN ss : ss[i] = {} THEN {}
    ELSE ss[CHOOSE i \in DOMAIN ss : ss[i] # {} /\ \A j \in 1..(i - 1) : ss[j] = {}]

(***************************************************************************)
(* float(str) for the strings of the model: an optional sign, digits with  *)
(* at most one decimal point and a digit on one side of it.                *)
(***************************************************************************)
NotAFloat == [ok |-> FALSE, n |-> 0]

FloatOfParts(ip, fs) ==
    IF Span(fs, Digits) = Len(fs) /\ Len(ip) + Len(fs) > 0
    THEN [ok |-> TRUE, n |-> DigitsToInt(ip) * Scale + FracVal(fs)]
    ELSE NotAFloat

\* s with its first i characters digits and the next one not
FloatOfSplit(s, i) ==
    IF i = Len(s)
    THEN IF i > 0 THEN [ok |-> TRUE, n |-> DigitsToInt(s) * Scale] ELSE NotAFloat
    ELSE IF s[i + 1] = "." THEN FloatOfParts(Take(s, i), Drop(s, i + 1))
    ELSE NotAFloat

FloatOfUnsigned(s) == FloatOfSplit(s, Span(s, Digits))

Negated(r) == [ok |-> r.ok, n |-> 0 - r.n]

FloatOfStr(s) ==
    IF s # <<>> /\ Head(s) = "-" THEN Negated(FloatOfUnsigned(Tail(s)))
    ELSE FloatOfUnsigned(s)

\* float(value): a number stays, a bool becomes 0.0 or 1.0, a str is parsed
ToFloat(v) ==
    CASE v.k = "num" -> [ok |-> TRUE, n |-> v.n]
      [] v.k = "bool" -> [ok |-> TRUE, n |-> v.n * Scale]
      [] v.k = "str" -> FloatOfStr(v.s)
      [] OTHER -> NotAFloat

Abs(x) == IF x < 0 THEN 0 - x ELSE x

(***************************************************************************)
(* The type registry.                                                      *)
(***************************************************************************)
ALL_TYPES ==
    {"Length (mm)", "Length (in)", "Number", "Bool", "Table Index", "String",
     "Angle (deg)"}

numbers == {"Length (mm)", "Length (in)", "Number", "Angle (deg)"}
positive == {"Length (mm)", "Length (in)"}

Ok(v) == [ok |-> TRUE, val |-> v, err |-> NoExc]
Fail(e) == [ok |-> FALSE, val |-> NoneV, err |-> e]

\* the largest angle magnitude accepted, in degrees
AngleLimit == 360

\* the bug of rejecting the boundary angle itself
AngleOutOfRangeStrict(x) == Abs(x) >= AngleLimit * Scale

\* line 70
AngleOutOfRange(x) == Abs(x) > AngleLimit * Scale

\* lines 67-71, f being float(value)
ConvertNumber(pname, tname, f) ==
    IF ~f.ok THEN Fail(Exc("ValueError", <<"float", pname>>))
    ELSE IF tname \in positive /\ f.n < 0
    THEN Fail(Exc("ValueError", <<"Negative length", pname>>))
    ELSE IF tname = "Angle (deg)" /\ AngleOutOfRange(f.n)
    THEN Fail(Exc("ValueError", <<"Angles", pname>>))
    ELSE Ok(Num(f.n))

\* lines 73-78
ConvertBool(pname, value) ==
    IF value = Str(sTrue) THEN Ok(Bool(TRUE))
    ELSE IF value = Str(sFalse) THEN Ok(Bool(FALSE))
    ELSE Fail(Exc("ValueError", <<"Unknown value for bool", pname>>))

convert_raw_parameter_value(pname, tname, value) ==
    IF tname \notin ALL_TYPES THEN Fail(Exc("UnknownTypeError", <<tname>>))
    ELSE IF value = Str(sNone) THEN Ok(NoneV)
    ELSE IF tname \in numbers THEN ConvertNumber(pname, tname, ToFloat(value))
    ELSE IF tname = "Bool" THEN ConvertBool(pname, value)
    ELSE Ok(value)

(***************************************************************************)
(* The sorting strategies.                                                 *)
(***************************************************************************)
RECURSIVE Perms(_)
Perms(S) ==
    IF S = {} THEN {<<>>}
    ELSE UNION {{<<x>> \o p : p \in Perms(S \ {x})} : x \in S}

\* the characters of a key that are not digits
NonDigit(s) == {s[i] : i \in DOMAIN s} \ Digits

(***************************************************************************)
(* Numerical.re matched at the start of s: non-digits, then group 1 (one   *)
(* or more digits, any number of points, digits), then non-digits to the   *)
(* end.  The pattern matches only with every part at its longest, so the   *)
(* parts are read greedily, one operator per part.  digits, dots and frac  *)
(* are the parts of group 1.                                               *)
(***************************************************************************)
MatchEnd(digits, dots, frac, suffix) ==
    [matched |-> digits # <<>> /\ Range(suffix) \cap Digits = {},
     digits |-> digits, dots |-> dots, frac |-> frac]

MatchFrac(digits, dots, s) ==
    MatchEnd(digits, dots, Take(s, Span(s, Digits)), Drop(s, Span(s, Digits)))

MatchDots(digits, s) == MatchFrac(digits, Span(s, {"."}), Drop(s, Span(s, {"."})))

MatchDigits(s) == MatchDots(Take(s, Span(s, Digits)), Drop(s, Span(s, Digits)))

NumericalMatch(s) == MatchDigits(Drop(s, Span(s, NonDigit(s))))

\* float(group(1)) of the match m: more than one decimal point is no float
NumericalKey(m) ==
    [ok |-> m.dots <= 1, n |-> DigitsToInt(m.digits) * Scale + FracVal(m.frac)]

\* str < str of Python 2: bytewise, a proper prefix first
RECURSIVE LexLess(_, _)
LexLess(a, b) ==
    IF b = <<>> THEN FALSE
    ELSE IF a = <<>> THEN TRUE
    ELSE IF Head(a) # Head(b) THEN Ord(Head(a)) < Ord(Head(b))
    ELSE LexLess(Tail(a), Tail(b))

\* Lexicographical.sort, sorted(choices): the one ascending arrangement
LexicographicalSort(choices) ==
    {p \in Perms(choices) : \A i \in 1..(Len(p) - 1) : LexLess(p[i], p[i + 1])}

\* Numerical.sort, sorted(choices, key=...) for the key values key[c]:
\* sorted() is stable and the order a set is read in is not fixed, so
\* choices of equal key may come out in either order
NumericalSort(choices, key) ==
    {p \in Perms(choices) : \A i \in 1..(Len(p) - 1) : key[p[i]] <= key[p[i + 1]]}

Sorted(seqs) == [ok |-> TRUE, seqs |-> seqs]
SortRaised == [ok |-> FALSE, seqs |-> {}]

\* the bug of trying Lexicographical before Numerical
SortByFirstApplicableLexFirst(choices, m) == Sorted(LexicographicalSort(choices))

\* lines 242-245 and 357-360, m[c] being Numerical.re.match(c): the results
\* the first applicable strategy may give, or the ValueError of float()
SortByFirstApplicable(choices, m) ==
    IF \A c \in choices : m[c].matched
    THEN IF \A c \in choices : NumericalKey(m[c]).ok
         THEN Sorted(NumericalSort(choices, [c \in choices |-> NumericalKey(m[c]).n]))
         ELSE SortRaised
    ELSE Sorted(LexicographicalSort(choices))

SortChoices(choices) ==
    SortByFirstApplicable(choices, [c \in choices |-> NumericalMatch(c)])

\* every way to pick one sorted sequence per name of sorts
Orderings(sorts) ==
    {c \in [DOMAIN sorts -> UNION {sorts[p].seqs : p \in DOMAIN sorts}] :
        \A p \in DOMAIN sorts : c[p] \in sorts[p].seqs}

(***************************************************************************)
(* BOLTSTable and BOLTSTable2D.  data maps a key (its characters) to the   *)
(* row, a sequence of values.  A KeyError is tagged with the mapping that  *)
(* raised it: "data" for a table's data[key].                              *)
(***************************************************************************)
IsKeyOf(data, key) == key.k = "str" /\ key.s \in DOMAIN data

Found(m) == [ok |-> TRUE, val |-> m, err |-> NoExc]
NotFound(e) == [ok |-> FALSE, val |-> EmptyMap, err |-> e]

\* dict(zip(columns, row)): a repeated column keeps its last value
ZipDict(columns, row) ==
    [c \in {columns[i] : i \in (DOMAIN columns) \cap (DOMAIN row)} |->
        row[CHOOSE i \in (DOMAIN columns) \cap (DOMAIN row) :
              columns[i] = c /\ \A j \in (DOMAIN columns) \cap (DOMAIN row) :
                                   j > i => columns[j] # c]]

\* BOLTSTable.get_values
get_values(table, key) ==
    IF ~IsKeyOf(table.data, key) THEN NotFound(Exc("KeyError", <<"data", key>>))
    ELSE Found(ZipDict(table.columns, table.data[key.s]))

\* line 440, i being columns.index(col)
ResultAt(table, r, i) ==
    IF i > Len(r) THEN NotFound(Exc("IndexError", <<i>>))
    ELSE Found([p \in {table.result} |-> r[i]])

\* BOLTSTable2D.get_value
get_value(table, row, col) ==
    IF ~IsKeyOf(table.data, row) THEN NotFound(Exc("KeyError", <<"data", row>>))
    ELSE IF col.k # "str" \/ IndexOf(table.columns, col.s) = 0
    THEN NotFound(Exc("ValueError", <<"list.index", col>>))
    ELSE ResultAt(table, table.data[row.s], IndexOf(table.columns, col.s))

NormalRow(row) == [ok |-> TRUE, row |-> row, err |-> NoExc]
NoRow(e) == [ok |-> FALSE, row |-> <<>>, err |-> e]

\* lines 389-390 and 431-432, cells[i] being the conversion of row[i]: the
\* first failing cell decides
RowOf(cells) ==
    IF FirstNotOk(cells) # 0 THEN NoRow(cells[FirstNotOk(cells)].err)
    ELSE NormalRow([i \in DOMAIN cells |-> cells[i].val])

\* lines 386-390 and 428-432 for one row: names and tnames give the
\* parameter and the type each cell is converted by
NormalizeRow(key, row, names, tnames) ==
    IF Len(row) # Len(names) THEN NoRow(Exc("ValueError", <<"Column is missing", Str(key)>>))
    ELSE RowOf([i \in DOMAIN row |-> convert_raw_parameter_value(names[i], tnames[i], row[i])])

\* the rows are read in no fixed order, so any failing row may be reported
DataOf(rows) ==
    [ok |-> \A key \in DOMAIN rows : rows[key].ok,
     data |-> [key \in DOMAIN rows |-> rows[key].row],
     errs |-> {rows[key].err : key \in {k \in DOMAIN rows : ~rows[k].ok}}]

\* _normalize_and_check_types of either table class
NormalizeData(data, names, tnames) ==
    DataOf([key \in DOMAIN data |-> NormalizeRow(key, data[key], names, tnames)])

(***************************************************************************)
(* BOLTSParameters.__init__.  A declaration d is the dictionary from YAML  *)
(* parsing: types, literal, free, tables, tables2d, description, defaults  *)
(* and, when hasCommon, common: a list of tuples of selectors, a selector  *)
(* being the wildcard ":" (wild) or a list of values (vals).  An instance  *)
(* is the record of the attributes the constructor sets.                   *)
(***************************************************************************)
type_defaults(tname) ==
    CASE tname = "Length (mm)" -> Whole(10)
      [] tname = "Length (in)" -> Whole(1)
      [] tname = "Number" -> Whole(1)
      [] tname = "Bool" -> Bool(FALSE)
      [] tname = "Table Index" -> Str(<<>>)
      [] tname = "String" -> Str(<<>>)
      [] tname = "Angle (deg)" -> Whole(0)

discrete_types == {"Bool", "Table Index"}

NoCommon == [none |-> TRUE, list |-> <<>>]
Common(l) == [none |-> FALSE, list |-> l]

Wild == [wild |-> TRUE, vals |-> <<>>]
Sel(vs) == [wild |-> FALSE, vals |-> vs]

\* the instance BOLTSParameters({"types": {}}) leaves behind
EmptyInst ==
    [literal |-> EmptyMap, free |-> <<>>, tables |-> <<>>, tables2d |-> <<>>,
     parameters |-> {}, types |-> EmptyMap, defaults |-> EmptyMap,
     description |-> EmptyMap, choices |-> EmptyMap, common |-> Common(<< <<>> >>)]

Built(i) == [ok |-> TRUE, inst |-> i, err |-> NoExc]
Raised(e) == [ok |-> FALSE, inst |-> EmptyInst, err |-> e]
RaisedAny(errs) == {Raised(e) : e \in errs}

\* line 151 for every literal that has a type
LiteralConversions(d) ==
    [p \in (DOMAIN d.literal) \cap (DOMAIN d.types) |->
        convert_raw_parameter_value(p, d.types[p], d.literal[p])]

\* lines 146-151, conv being the conversions: what the loop may raise (any
\* failing entry may be the one the dict is read to first)
LiteralErrors(d, conv) ==
    {Exc("MissingTypeError", <<p>>) : p \in (DOMAIN d.literal) \ (DOMAIN d.types)}
    \cup {conv[p].err : p \in {q \in DOMAIN conv : ~conv[q].ok}}

\* BOLTSTable2D.__init__ (lines 422-423) of every entry of tables2d
Table2DInitErrors(d) ==
    IF \E i \in DOMAIN d.tables2d : d.tables2d[i].rowindex = d.tables2d[i].colindex
    THEN {Exc("ValueError", <<"Row- and ColIndex are identical">>)}
    ELSE {}

\* lines 177-188
InitParameters(d) ==
    (DOMAIN d.literal) \cup Range(d.free)
    \cup UNION {{d.tables[i].index} \cup Range(d.tables[i].columns) : i \in DOMAIN d.tables}
    \cup UNION {{d.tables2d[i].rowindex, d.tables2d[i].colindex, d.tables2d[i].result} :
                  i \in DOMAIN d.tables2d}

\* lines 190-195
TypeErrors(d, parameters) ==
    {IF p \notin parameters
     THEN Exc("UnknownParameterError", <<p>>)
     ELSE Exc("UnknownTypeError", <<d.types[p]>>) :
        p \in {q \in DOMAIN d.types : q \notin parameters \/ d.types[q] \notin ALL_TYPES}}

\* lines 197-199
MissingTypeErrors(d, parameters) ==
    {Exc("MissingTypeError", <<p>>) : p \in parameters \ (DOMAIN d.types)}

\* lines 201-204
DescriptionErrors(d, parameters) ==
    {Exc("UnknownParameterError", <<p>>) : p \in (DOMAIN d.description) \ parameters}

Normal(t) == [ok |-> TRUE, table |-> t, errs |-> {}]
NotNormal(t, errs) == [ok |-> FALSE, table |-> t, errs |-> errs]

\* lines 208-210, n being the table's data normalized
CheckedTable(d, t, n) ==
    IF ~n.ok THEN NotNormal(t, n.errs)
    ELSE IF d.types[t.index] # "Table Index"
    THEN NotNormal(t, {Exc("TableIndexTypeError", <<t.index, d.types[t.index]>>)})
    ELSE Normal([t EXCEPT !.data = n.data])

\* lines 212-216, n being the table's data normalized
CheckedTable2D(d, t, n) ==
    IF ~n.ok THEN NotNormal(t, n.errs)
    ELSE IF d.types[t.rowindex] # "Table Index"
    THEN NotNormal(t, {Exc("TableIndexTypeError", <<t.rowindex, d.types[t.rowindex]>>)})
    ELSE IF d.types[t.colindex] # "Table Index"
    THEN NotNormal(t, {Exc("TableIndexTypeError", <<t.colindex, d.types[t.colindex]>>)})
    ELSE Normal([t EXCEPT !.data = n.data])

\* the tables of a list checked in order: the first failing one decides
TablesOf(rs) ==
    IF FirstNotOk(rs) # 0 THEN [ok |-> FALSE, tables |-> <<>>, errs |-> rs[FirstNotOk(rs)].errs]
    ELSE [ok |-> TRUE, tables |-> [i \in DOMAIN rs |-> rs[i].table], errs |-> {}]

\* lines 207-210
NormalizeTables(d) ==
    TablesOf([i \in DOMAIN d.tables |->
                CheckedTable(d, d.tables[i],
                    NormalizeData(d.tables[i].data, d.tables[i].columns,
                        [j \in DOMAIN d.tables[i].columns |-> d.types[d.tables[i].columns[j]]]))])

\* lines 211-216
NormalizeTables2D(d) ==
    TablesOf([i \in DOMAIN d.tables2d |->
                CheckedTable2D(d, d.tables2d[i],
                    NormalizeData(d.tables2d[i].data,
                        [j \in DOMAIN d.tables2d[i].columns |-> d.tables2d[i].result],
                        [j \in DOMAIN d.tables2d[i].columns |-> d.types[d.tables2d[i].result]]))])

\* the key sets lines 223-239 seed and intersect for pname
ChoiceSources(d, pname) ==
    {DOMAIN d.tables[i].data : i \in {j \in DOMAIN d.tables : d.tables[j].index = pname}}
    \cup {DOMAIN d.tables2d[i].data :
            i \in {j \in DOMAIN d.tables2d : d.tables2d[j].rowindex = pname}}
    \cup {Range(d.tables2d[i].columns) :
            i \in {j \in DOMAIN d.tables2d :
                     d.tables2d[j].rowindex # pname /\ d.tables2d[j].colindex = pname}}

\* the bug of merging the key sets with | in place of &
ChoiceSetUnion(srcs) == UNION srcs

\* lines 225-239: the first reference seeds the set, the others intersect it
ChoiceSet(srcs) == {k \in UNION srcs : \A S \in srcs : k \in S}

\* lines 219-245: the names that get an entry of choices, each with the
\* outcome of sorting its set
InitChoices(d) ==
    [p \in {q \in Range(d.free) : d.types[q] = "Table Index" /\ ChoiceSources(d, q) # {}} |->
        SortChoices(ChoiceSet(ChoiceSources(d, p)))]

SortErrors(sorts) ==
    IF \E p \in DOMAIN sorts : ~sorts[p].ok THEN {Exc("ValueError", <<"float">>)} ELSE {}

\* lines 247-249
TypeDefaults(d) == [p \in Range(d.free) |-> type_defaults(d.types[p])]

\* lines 250-255, for the choices ch
DefaultErrors(d, ch) ==
    {IF p \notin Range(d.free) THEN Exc("NonFreeDefaultError", <<p>>)
     ELSE IF p \notin DOMAIN ch THEN Exc("KeyError", <<"choices", p>>)
     ELSE Exc("InvalidTableIndexError", <<p, d.defaults[p]>>) :
        p \in {q \in DOMAIN d.defaults :
                 \/ q \notin Range(d.free)
                 \/ /\ d.types[q] = "Table Index"
                    /\ \/ q \notin DOMAIN ch
                       \/ d.defaults[q].k # "str"
                       \/ d.defaults[q].s \notin Range(ch[q])}}

\* the bug of enumerating False before True
BoolDomainFalseFirst == <<Bool(FALSE), Bool(TRUE)>>

\* line 285
BoolDomain == <<Bool(TRUE), Bool(FALSE)>>

\* the bug of leaving out the last value of an explicit selector
SelectorValuesShort(sel) == SubSeq(sel.vals, 1, Len(sel.vals) - 1)

\* line 294: the values an explicit selector is iterated over
SelectorValues(sel) == sel.vals

Values(vs) == [ok |-> TRUE, vals |-> vs, err |-> NoExc]
Tuples(l) == [ok |-> TRUE, list |-> l, err |-> NoExc]
NoTuples(e) == [ok |-> FALSE, list |-> <<>>, err |-> e]

\* lines 283-295: the values position i of tup is expanded over; a wildcard
\* for a type that is neither Bool nor Table Index expands to nothing
Candidates(free, types, choices, tup, i) ==
    IF ~tup[i].wild THEN Values(SelectorValues(tup[i]))
    ELSE IF types[free[i]] = "Bool" THEN Values(BoolDomain)
    ELSE IF types[free[i]] # "Table Index" THEN Values(<<>>)
    ELSE IF free[i] \notin DOMAIN choices
    THEN [ok |-> FALSE, vals |-> <<>>, err |-> Exc("KeyError", <<"choices", free[i]>>)]
    ELSE Values([j \in DOMAIN choices[free[i]] |-> Str(choices[free[i]][j])])

\* the lists appended by calls made one after another: the first exception
\* ends them
Appended(rs) ==
    IF FirstNotOk(rs) # 0 THEN NoTuples(rs[FirstNotOk(rs)].err)
    ELSE Tuples(Flatten([j \in DOMAIN rs |-> rs[j].list]))

(***************************************************************************)
(* _populate_common(tup, values, idx) with idx = i - 1, for the instance   *)
(* attributes free, types and choices: the tuples appended to common, in   *)
(* order, or the exception that ends the recursion.                        *)
(***************************************************************************)
RECURSIVE populate_common(_, _, _, _, _, _)
RECURSIVE PopulateOver(_, _, _, _, _, _, _)
populate_common(free, types, choices, tup, values, i) ==
    IF i > Len(free) THEN Tuples(<<values>>)
    ELSE IF i > Len(tup) THEN NoTuples(Exc("IndexError", <<i>>))
    ELSE PopulateOver(free, types, choices, tup, values, i,
                      Candidates(free, types, choices, tup, i))

PopulateOver(free, types, choices, tup, values, i, c) ==
    IF ~c.ok THEN NoTuples(c.err)
    ELSE Appended([j \in DOMAIN c.vals |->
                     populate_common(free, types, choices, tup, Append(values, c.vals[j]), i + 1)])

\* lines 259-276: the tuples to expand, one list entry after another, and
\* what common is without any
CommonOf(d, r) ==
    IF d.hasCommon \/ (\A i \in DOMAIN d.free : d.types[d.free[i]] \in discrete_types)
    THEN [ok |-> r.ok, common |-> Common(r.list), err |-> r.err]
    ELSE [ok |-> TRUE, common |-> NoCommon, err |-> NoExc]

InitCommon(d, choices) ==
    CommonOf(d,
        IF ~d.hasCommon /\ Len(d.free) = 0 THEN Tuples(<< <<>> >>)
        ELSE IF ~d.hasCommon /\ (\E i \in DOMAIN d.free : d.types[d.free[i]] \notin discrete_types)
        THEN Tuples(<<>>)
        ELSE Appended([j \in DOMAIN (IF d.hasCommon THEN d.common ELSE << <<>> >>) |->
                         populate_common(d.free, d.types, choices,
                             IF d.hasCommon THEN d.common[j]
                             ELSE [i \in DOMAIN d.free |-> Wild], <<>>, 1)]))

(***************************************************************************)
(* Every outcome of BOLTSParameters(d): the instance, or the exception.    *)
(* Python reads a dict and a set in no fixed order, so where a loop over   *)
(* one raises, any failing entry may be the one that raises.  Each step    *)
(* hands what it computed to the next.                                     *)
(***************************************************************************)
\* lines 258-276 and the instance
InitDone(d, conv, t1, t2, ch, c) ==
    IF ~c.ok THEN {Raised(c.err)}
    ELSE {Built([literal |-> [p \in DOMAIN conv |-> conv[p].val], free |-> d.free,
                 tables |-> t1, tables2d |-> t2,
                 parameters |-> InitParameters(d), types |-> d.types,
                 defaults |-> Update(TypeDefaults(d), d.defaults),
                 description |-> d.description, choices |-> ch,
                 common |-> c.common])}

\* lines 247-256
InitDefaults(d, conv, t1, t2, ch, errs) ==
    IF errs # {} THEN RaisedAny(errs)
    ELSE InitDone(d, conv, t1, t2, ch, InitCommon(d, ch))

\* lines 240-245
InitSorted(d, conv, t1, t2, sorts) ==
    IF SortErrors(sorts) # {} THEN RaisedAny(SortErrors(sorts))
    ELSE UNION {InitDefaults(d, conv, t1, t2, ch, DefaultErrors(d, ch)) :
                  ch \in Orderings(sorts)}

\* lines 211-216
InitTables2D(d, conv, t1, t2) ==
    IF ~t2.ok THEN RaisedAny(t2.errs)
    ELSE InitSorted(d, conv, t1, t2.tables, InitChoices(d))

\* lines 207-210
InitTables(d, conv, t1) ==
    IF ~t1.ok THEN RaisedAny(t1.errs)
    ELSE InitTables2D(d, conv, t1.tables, NormalizeTables2D(d))

\* lines 142-204
InitChecked(d, conv, errs) ==
    IF errs # {} THEN RaisedAny(errs)
    ELSE InitTables(d, conv, NormalizeTables(d))

InitErrors(d, conv, parameters) ==
    FirstNonEmpty(<<LiteralErrors(d, conv), Table2DInitErrors(d), TypeErrors(d, parameters),
                    MissingTypeErrors(d, parameters), DescriptionErrors(d, parameters)>>)

InitConverted(d, conv) == InitChecked(d, conv, InitErrors(d, conv, InitParameters(d)))

BOLTSParameters(d) == InitConverted(d, LiteralConversions(d))

(***************************************************************************)
(* BOLTSParameters.collect.                                                *)
(***************************************************************************)
\* the bug of applying the literal values over the free values
CollectBaseLiteralLast(literal, free) == Update(free, literal)

\* lines 302-304
CollectBase(literal, free) == Update(literal, free)

Collected(res) == [ok |-> TRUE, map |-> res, err |-> NoExc]
CollectFailed(e) == [ok |-> FALSE, map |-> EmptyMap, err |-> e]

\* lines 305-306: the 1D tables merged in one after another, v being what
\* get_values returned for the table before rest
RECURSIVE CollectTables(_, _)
RECURSIVE CollectMerge(_, _, _)
CollectTables(tables, res) ==
    IF tables = <<>> THEN Collected(res)
    ELSE IF Head(tables).index \notin DOMAIN res
    THEN CollectFailed(Exc("KeyError", <<"res", Head(tables).index>>))
    ELSE CollectMerge(Tail(tables), res, get_values(Head(tables), res[Head(tables).index]))

CollectMerge(rest, res, v) ==
    IF ~v.ok THEN CollectFailed(v.err) ELSE CollectTables(rest, Update(res, v.val))

\* lines 307-308: the 2D tables merged in one after another
RECURSIVE CollectTables2D(_, _)
RECURSIVE CollectMerge2D(_, _, _)
CollectTables2D(tables, res) ==
    IF tables = <<>> THEN Collected(res)
    ELSE IF Head(tables).rowindex \notin DOMAIN res
    THEN CollectFailed(Exc("KeyError", <<"res", Head(tables).rowindex>>))
    ELSE IF Head(tables).colindex \notin DOMAIN res
    THEN CollectFailed(Exc("KeyError", <<"res", Head(tables).colindex>>))
    ELSE CollectMerge2D(Tail(tables), res,
             get_value(Head(tables), res[Head(tables).rowindex], res[Head(tables).colindex]))

CollectMerge2D(rest, res, v) ==
    IF ~v.ok THEN CollectFailed(v.err) ELSE CollectTables2D(rest, Update(res, v.val))

NotCollected == "Parameter value not collected"

\* lines 309-312, r being the outcome of the merges (parameters is read in
\* no fixed order, so any missing name may be the one reported)
CollectComplete(parameters, r) ==
    IF ~r.ok \/ parameters \subseteq DOMAIN r.map THEN {r}
    ELSE {CollectFailed(Exc("KeyError", <<NotCollected, p>>)) : p \in parameters \ DOMAIN r.map}

\* lines 307-308, r being the outcome of lines 302-306
CollectSecond(tables2d, r) == IF ~r.ok THEN r ELSE CollectTables2D(tables2d, r.map)

\* every outcome of inst.collect(free)
collect(inst, free) ==
    CollectComplete(inst.parameters,
        CollectSecond(inst.tables2d,
            CollectTables(inst.tables, CollectBase(inst.literal, free))))

(***************************************************************************)
(* The heap.  An instance is stored as one container per attribute, in the *)
(* order of Fields; a reference to an instance is the record of the        *)
(* addresses of its containers.  The table objects and the values inside a *)
(* container are never written to after construction.                      *)
(***************************************************************************)
Fields ==
    <<"literal", "free", "tables", "tables2d", "parameters", "types",
      "defaults", "description", "choices", "common">>

FieldSet == Range(Fields)

NoRef == [f \in FieldSet |-> 0]

\* the instance stored at base + 1 .. base + Len(Fields)
RefAt(base) == [f \in FieldSet |-> base + IndexOf(Fields, f)]

Alloc(h, inst) == h \o [i \in DOMAIN Fields |-> inst[Fields[i]]]

\* the attributes of the instance ref refers to
View(h, ref) == [f \in FieldSet |-> h[ref[f]]]

Write(h, addr, val) == [h EXCEPT ![addr] = val]

(***************************************************************************)
(* BOLTSParameters.union(self, other) for the references a and b: every    *)
(* outcome, with the heap it leaves.  Each step hands the heap on.         *)
(***************************************************************************)
\* the attributes lines 322-325 and 348 bind to a new object
Rebound == <<"free", "tables", "tables2d", "parameters", "choices">>

\* the bug of `res.literal = self.literal` in place of updating a new dict
UnionRefsSharedLiteral(a, b, base) ==
    [f \in FieldSet |->
        IF f = "literal" THEN a.literal
        ELSE IF IndexOf(Rebound, f) > 0 THEN base + Len(Fields) + IndexOf(Rebound, f)
        ELSE base + IndexOf(Fields, f)]

\* where the attributes of res are once line 348 has run: those of the new
\* instance of line 319 at base + 1 .., the rebound ones after them
UnionRefs(a, b, base) ==
    [f \in FieldSet |->
        IF IndexOf(Rebound, f) > 0 THEN base + Len(Fields) + IndexOf(Rebound, f)
        ELSE base + IndexOf(Fields, f)]

\* Python's == on two values: a bool compares as the number 0 or 1
PyNumber(v) == IF v.k = "bool" THEN v.n * Scale ELSE v.n
PyEq(a, b) ==
    IF a.k \in {"num", "bool"} /\ b.k \in {"num", "bool"} THEN PyNumber(a) = PyNumber(b)
    ELSE a = b

\* the bug of comparing nothing
MergeConflictsNone(mine, theirs, f) == {}

\* lines 330, 337, 344: the names of theirs that raise.  res[f] holds
\* mine and the names of theirs written so far, so a name is in it exactly
\* when it is in mine
MergeConflicts(mine, theirs, f) ==
    {p \in (DOMAIN theirs) \cap (DOMAIN mine) :
        IF f = "defaults" THEN ~PyEq(mine[p], theirs[p]) ELSE mine[p] # theirs[p]}

Merged(h) == [ok |-> TRUE, heap |-> h, errs |-> {}]
NotMerged(h, errs) == [ok |-> FALSE, heap |-> h, errs |-> errs]

\* lines 329-332, 336-339 and 343-346 for the attribute f, bad being the
\* names in conflict (theirs is read in no fixed order, so any of them may
\* be the one that raises; what was written to res before is lost with it)
MergeTheirs(h, r, a, b, f, class, bad) ==
    IF bad # {}
    THEN NotMerged(h, {Exc(class, <<p, h[a[f]][p], h[b[f]][p]>>) : p \in bad})
    ELSE Merged(Write(h, r[f], Update(h[r[f]], h[b[f]])))

\* lines 327-328, 334-335 and 341-342
MergeMine(h, r, a, f) == Write(h, r[f], Update(h[r[f]], h[a[f]]))

MergePhase(h, r, a, b, f, class) ==
    MergeTheirs(MergeMine(h, r, a, f), r, a, b, f, class,
                MergeConflicts(h[a[f]], h[b[f]], f))

\* the bug of merging the operands' choices with | in place of &
UnionChoiceSetJoined(ca, cb, p) ==
    (IF p \in DOMAIN ca THEN Range(ca[p]) ELSE {})
    \cup (IF p \in DOMAIN cb THEN Range(cb[p]) ELSE {})

\* lines 349-355: the set of each entry of res.choices
UnionChoiceSet(ca, cb, p) ==
    IF p \in DOMAIN ca /\ p \in DOMAIN cb THEN Range(ca[p]) \cap Range(cb[p])
    ELSE IF p \in DOMAIN ca THEN Range(ca[p])
    ELSE Range(cb[p])

UnionDone(h, r) == [ok |-> TRUE, heap |-> h, ref |-> r, err |-> NoExc]
UnionRaised(h, e) == [ok |-> FALSE, heap |-> h, ref |-> NoRef, err |-> e]
UnionRaisedAny(h, errs) == {UnionRaised(h, e) : e \in errs}

\* lines 356-361, sorts being the outcome of sorting each entry
UnionSorted(h, r, sorts) ==
    IF SortErrors(sorts) # {} THEN UnionRaisedAny(h, SortErrors(sorts))
    ELSE {UnionDone(Write(h, r.choices, ch), r) : ch \in Orderings(sorts)}

\* lines 348-355, h having the new dict of line 348 as its last object
UnionChoices(h, r, ca, cb) ==
    UnionSorted(h, r, [p \in (DOMAIN ca) \cup (DOMAIN cb) |->
                          SortChoices(UnionChoiceSet(ca, cb, p))])

\* lines 341-346, m being their outcome
UnionDescribed(r, a, b, m) ==
    IF ~m.ok THEN UnionRaisedAny(m.heap, m.errs)
    ELSE UnionChoices(Append(m.heap, EmptyMap), r, m.heap[a.choices], m.heap[b.choices])

\* lines 334-339, m being their outcome
UnionDefaulted(r, a, b, m) ==
    IF ~m.ok THEN UnionRaisedAny(m.heap, m.errs)
    ELSE UnionDescribed(r, a, b,
             MergePhase(m.heap, r, a, b, "description", "IncompatibleDescriptionError"))

\* lines 327-332, m being their outcome
UnionTyped(r, a, b, m) ==
    IF ~m.ok THEN UnionRaisedAny(m.heap, m.errs)
    ELSE UnionDefaulted(r, a, b,
             MergePhase(m.heap, r, a, b, "defaults", "IncompatibleDefaultError"))

\* lines 322-325: four new objects after those of the new instance
UnionRebind(h, a, b) ==
    h \o <<h[a.free] \o h[b.free], h[a.tables] \o h[b.tables],
           h[a.tables2d] \o h[b.tables2d], h[a.parameters] \cup h[b.parameters]>>

\* lines 320-321
UnionLiteral(h, r, a, b) ==
    Write(h, r.literal, Update(Update(h[r.literal], h[a.literal]), h[b.literal]))

\* lines 320-361, h having the new instance of line 319
UnionInto(h, r, a, b) ==
    UnionTyped(r, a, b,
        MergePhase(UnionRebind(UnionLiteral(h, r, a, b), a, b), r, a, b,
                   "types", "IncompatibleTypeError"))

union(h, a, b) == UnionInto(Alloc(h, EmptyInst), UnionRefs(a, b, Len(h)), a, b)

(***************************************************************************)
(* The declarations the model builds instances from.                       *)
(***************************************************************************)
kM3 == <<"M", "3">>
kM10 == <<"M", "1", "0">>
kX == <<"x">>
kDots == <<"3", ".", ".">>
kZZ == <<"z", "z">>

Table(index, columns, data) == [index |-> index, columns |-> columns, data |-> data]

Table2D(rowindex, colindex, result, columns, data) ==
    [rowindex |-> rowindex, colindex |-> colindex, result |-> result,
     columns |-> columns, data |-> data]

\* the 1D tables a declaration lists: d by size; d and k by size, with a
\* key that is no number; size by len; d by size, with a key float() rejects
TablePool ==
    {Table("size", <<"d">>, (kM3 :> <<Whole(3)>>) @@ (kM10 :> <<Whole(10)>>)),
     Table("size", <<"d", "k">>,
           (kM10 :> <<Whole(11), Whole(7)>>) @@ (kM3 :> <<Whole(4), Whole(8)>>)
           @@ (kX :> <<Whole(1), Str(sNone)>>)),
     Table("len", <<"size">>, (kX :> <<Str(kX)>>) @@ (kM3 :> <<Str(kM3)>>)),
     Table("size", <<"d">>, (kM3 :> <<Whole(5)>>) @@ (kDots :> <<Whole(6)>>))}

\* a negative length, and a row that is too short
BadTable == Table("size", <<"d">>, (kM3 :> <<Whole(0 - 1)>>) @@ (kM10 :> <<>>))

TableLists == SeqsUpTo(TablePool, MaxTables)

\* no table, or a single one
SingleTables == {<<>>} \cup {<<t>> : t \in TablePool}

RowCol == Table2D("size", "len", "r", <<kX, kM3>>,
                  (kM3 :> <<Whole(1), Whole(2)>>) @@ (kM10 :> <<Whole(3), Whole(4)>>))
ColRow == Table2D("len", "size", "d", <<kM3, kM10>>, (kX :> <<Whole(20), Whole(21)>>))
SameIndex == Table2D("size", "size", "r", <<kM3>>, (kM3 :> <<Whole(1)>>))

Table2DLists == {<<>>, <<RowCol>>, <<RowCol, ColRow>>}

FreeLists ==
    {<<>>, <<"b">>, <<"size">>, <<"k">>, <<"b", "size">>, <<"size", "len">>,
     <<"len", "size">>, <<"size", "k">>, <<"size", "size">>}

Literals == {EmptyMap, ("k" :> Whole(5)) @@ ("size" :> Str(kM10))}

\* the type every parameter name of the model is meant to have
CanonType(p) ==
    CASE p \in {"size", "len"} -> "Table Index"
      [] p = "b" -> "Bool"
      [] p = "d" -> "Length (mm)"
      [] p = "k" -> "Number"
      [] p = "r" -> "Angle (deg)"
      [] OTHER -> "String"

Untyped(free, tables, tables2d, literal) ==
    [types |-> EmptyMap, literal |-> literal, free |-> free, tables |-> tables,
     tables2d |-> tables2d, description |-> EmptyMap, defaults |-> EmptyMap,
     hasCommon |-> FALSE, common |-> <<>>]

Typed(d) == [d EXCEPT !.types = [p \in InitParameters(d) |-> CanonType(p)]]

\* a declaration that types exactly its parameters, has no description, no
\* defaults and no common
BaseDecl(free, tables, tables2d, literal) == Typed(Untyped(free, tables, tables2d, literal))
\* the explicit selector the model uses for a free parameter
ExplicitSel(p) ==
    CASE p \in {"size", "len"} -> Sel(<<Str(kM10), Str(kM3)>>)
      [] p = "b" -> Sel(<<Bool(TRUE)>>)
      [] OTHER -> Sel(<<Whole(1), Whole(2)>>)

Variations ==
    {"none", "orphanType", "missingType", "unknownType", "indexNotTableIndex", "otherType",
     "defaultM3", "defaultZZ", "defaultB", "describe", "describeOther", "describeUnknown",
     "commonWild", "commonExplicit", "commonMixed", "commonShort", "commonEmpty",
     "sameIndex", "badTable", "badLiteral"}

\* the declaration d with one entry changed or added
Vary(d, v) ==
    CASE v = "none" -> d
      [] v = "orphanType" -> [d EXCEPT !.types = Update(@, "zz" :> "Number")]
      [] v = "missingType" ->
            [d EXCEPT !.types = [p \in (DOMAIN d.types) \ {"size"} |-> d.types[p]]]
      [] v = "unknownType" -> [d EXCEPT !.types = Update(@, "b" :> "Weight")]
      [] v = "indexNotTableIndex" ->
            [d EXCEPT !.types = [p \in DOMAIN d.types |->
                                    IF p = "size" THEN "String" ELSE d.types[p]]]
      [] v = "otherType" ->
            [d EXCEPT !.types = [p \in DOMAIN d.types |->
                                    IF p = "k" THEN "Length (in)" ELSE d.types[p]]]
      [] v = "defaultM3" -> [d EXCEPT !.defaults = "size" :> Str(kM3)]
      [] v = "defaultZZ" -> [d EXCEPT !.defaults = "size" :> Str(kZZ)]
      [] v = "defaultB" -> [d EXCEPT !.defaults = "b" :> Bool(TRUE)]
      [] v = "describe" -> [d EXCEPT !.description = "size" :> "thread size"]
      [] v = "describeOther" -> [d EXCEPT !.description = "size" :> "nominal size"]
      [] v = "describeUnknown" -> [d EXCEPT !.description = "zz" :> "unknown"]
      [] v = "commonWild" ->
            [d EXCEPT !.hasCommon = TRUE, !.common = <<[i \in DOMAIN d.free |-> Wild]>>]
      [] v = "commonExplicit" ->
            [d EXCEPT !.hasCommon = TRUE,
                      !.common = <<[i \in DOMAIN d.free |-> ExplicitSel(d.free[i])]>>]
      [] v = "commonMixed" ->
            [d EXCEPT !.hasCommon = TRUE,
                      !.common = <<[i \in DOMAIN d.free |->
                                      IF i = 1 THEN ExplicitSel(d.free[i]) ELSE Wild],
                                   [i \in DOMAIN d.free |->
                                      IF i = 1 THEN Wild ELSE Sel(<<>>)]>>]
      [] v = "commonShort" -> [d EXCEPT !.hasCommon = TRUE, !.common = << <<Wild>> >>]
      [] v = "commonEmpty" -> [d EXCEPT !.hasCommon = TRUE, !.common = <<>>]
      [] v = "sameIndex" ->
            [d EXCEPT !.tables2d = <<SameIndex>>, !.types = Update(@, "r" :> "Angle (deg)")]
      [] v = "badTable" ->
            [d EXCEPT !.tables = <<BadTable>>,
                      !.types = Update(@, ("size" :> "Table Index") @@ ("d" :> "Length (mm)"))]
      [] v = "badLiteral" ->
            [d EXCEPT !.literal = "k" :> Str(kX), !.types = Update(@, "k" :> "Number")]

\* the declarations a single instance is built from: every combination of
\* free names, tables and literals, and every variation of those with at
\* most one 1D table
Decls ==
    {BaseDecl(f, t, t2, l) :
        f \in FreeLists, t \in TableLists, t2 \in Table2DLists, l \in Literals}
    \cup {Vary(BaseDecl(f, t, <<>>, EmptyMap), v) :
             f \in FreeLists, t \in SingleTables, v \in Variations}

\* the declarations the two operands of union are built from
UnionDecls ==
    {Vary(BaseDecl(f, t, <<>>, l), v) :
        f \in {<<"size">>, <<"b">>, <<"size", "k">>},
        t \in {s \in SingleTables : \A i \in DOMAIN s : s[i].index = "size"},
        l \in {EmptyMap, "k" :> Whole(5), "k" :> Whole(6)},
        v \in {"none", "otherType", "defaultM3", "describe", "describeOther"}}

\* the values collect() is handed for a free parameter
Supplied(p) ==
    CASE p = "size" -> {Str(kM3), Str(kM10)}
      [] p = "len" -> {Str(kX), Str(kM3)}
      [] p = "b" -> {Bool(TRUE)}
      [] OTHER -> {Whole(2)}

\* the mappings collect() is called with: values for some free parameters
FreeValues(free) ==
    UNION {{fv \in [S -> UNION {Supplied(p) : p \in S}] : \A p \in S : fv[p] \in Supplied(p)} :
             S \in SUBSET Range(free)}

(***************************************************************************)
(* The state: heap, the instances slot[1], slot[2] (built from decl[1],    *)
(* decl[2]) and slot[3] (returned by union), the last call and its result. *)
(***************************************************************************)
Slots == 1..3

EmptySlot == [st |-> "empty", ref |-> NoRef, err |-> NoExc]

NoDecl == BaseDecl(<<>>, <<>>, <<>>, EmptyMap)

NoCall == [op |-> "none", slot |-> 0, free |-> EmptyMap, pname |-> "", tname |-> "",
           value |-> NoneV]

NoOut == [ok |-> TRUE, map |-> EmptyMap, val |-> NoneV, err |-> NoExc]

Init ==
    /\ heap = <<>>
    /\ slot = [i \in Slots |-> EmptySlot]
    /\ decl = [i \in 1..2 |-> NoDecl]
    /\ call = NoCall
    /\ out = NoOut

\* slot[i] = BOLTSParameters(d)
Construct(i, d) ==
    /\ slot[i].st = "empty"
    /\ \E o \in BOLTSParameters(d) :
          /\ heap' = IF o.ok THEN Alloc(heap, o.inst) ELSE heap
          /\ slot' = [slot EXCEPT ![i] =
                        IF o.ok THEN [st |-> "ok", ref |-> RefAt(Len(heap)), err |-> NoExc]
                        ELSE [st |-> "err", ref |-> NoRef, err |-> o.err]]
    /\ decl' = [decl EXCEPT ![i] = d]
    /\ call' = [NoCall EXCEPT !.op = "init", !.slot = i]
    /\ out' = NoOut

\* slot[i].collect(fv)
Collect(i, fv) ==
    /\ slot[i].st = "ok"
    /\ \E o \in collect(View(heap, slot[i].ref), fv) :
          out' = [NoOut EXCEPT !.ok = o.ok, !.map = o.map, !.err = o.err]
    /\ call' = [NoCall EXCEPT !.op = "collect", !.slot = i, !.free = fv]
    /\ UNCHANGED <<heap, slot, decl>>

\* slot[3] = slot[1].union(slot[2])
Union ==
    /\ slot[1].st = "ok" /\ slot[2].st = "ok" /\ slot[3].st = "empty"
    /\ \E o \in union(heap, slot[1].ref, slot[2].ref) :
          /\ heap' = o.heap
          /\ slot' = [slot EXCEPT ![3] =
                        IF o.ok THEN [st |-> "ok", ref |-> o.ref, err |-> NoExc]
                        ELSE [st |-> "err", ref |-> NoRef, err |-> o.err]]
    /\ call' = [NoCall EXCEPT !.op = "union", !.slot = 3]
    /\ out' = NoOut
    /\ UNCHANGED decl

\* convert_raw_parameter_value(pname, tname, value)
Convert(pname, tname, value) ==
    /\ call' = [NoCall EXCEPT !.op = "convert", !.pname = pname, !.tname = tname,
                              !.value = value]
    /\ \E c \in {convert_raw_parameter_value(pname, tname, value)} :
          out' = [NoOut EXCEPT !.ok = c.ok, !.val = c.val, !.err = c.err]
    /\ UNCHANGED <<heap, slot, decl>>

\* the mappings of free names to the values of a tuple of common
CommonValues(free, common) ==
    {ZipDict(free, common.list[j]) : j \in DOMAIN common.list}

\* the mappings slot[i] is asked to collect
CallValues(i) ==
    IF slot[i].st # "ok" THEN {}
    ELSE FreeValues(heap[slot[i].ref.free])
         \cup CommonValues(heap[slot[i].ref.free], heap[slot[i].ref.common])

\* one instance, built and then asked to collect
Next ==
    \/ \E d \in Decls : Construct(1, d)
    \/ \E fv \in CallValues(1) : Collect(1, fv)

Spec == Init /\ [][Next]_vars

\* two instances and their union
NextUnion ==
    \/ \E i \in 1..2, d \in UnionDecls : Construct(i, d)
    \/ Union

SpecUnion == Init /\ [][NextUnion]_vars

\* the raw values convert is handed: numbers, strings, a bool
RawNumbers ==
    {Whole(i) : i \in {0 - AngleLimit - 1, 0 - AngleLimit, 0 - 1, 0, 1, AngleLimit,
                       AngleLimit + 1}}
    \cup {Num(0 - 1), Num(AngleLimit * Scale + 1), Num(0 - AngleLimit * Scale - 1)}

RawStrings ==
    {Str(sNone), Str(sTrue), Str(sFalse), Str(kX), Str(<<>>), Str(<<"-", "1">>),
     Str(<<"3", "6", "0">>), Str(<<"3", "6", "1">>), Str(<<"2", ".", "5">>)}

RawValues == RawNumbers \cup RawStrings \cup {Bool(TRUE)}

TypeNames == ALL_TYPES \cup {"Weight"}

NextConvert == \E p \in {"d"}, t \in TypeNames, v \in RawValues : Convert(p, t, v)

SpecConvert == Init /\ [][NextConvert]_vars

(***************************************************************************)
(* The properties checked.                                                 *)
(***************************************************************************)
\* the attributes of the instance in slot i
Inst(i) == View(heap, slot[i].ref)

\* the product of the lengths of the sequences of doms after the k-th
RECURSIVE SizeAfter(_, _)
SizeAfter(doms, k) ==
    IF k >= Len(doms) THEN 1 ELSE Len(doms[k + 1]) * SizeAfter(doms, k + 1)

\* the cross product of the sequences doms[1], doms[2], ... as a list of
\* tuples, the first position varying slowest
CrossProduct(doms) ==
    [j \in 1..SizeAfter(doms, 0) |->
        [i \in DOMAIN doms |->
            doms[i][(((j - 1) \div SizeAfter(doms, i)) % Len(doms[i])) + 1]]]

\* the names a 1D table column or a 2D table result supplies
TableSupplied(inst) ==
    UNION {Range(inst.tables[i].columns) : i \in DOMAIN inst.tables}
    \cup {inst.tables2d[i].result : i \in DOMAIN inst.tables2d}

\* the names a table is looked up by
TableIndexes(inst) ==
    {inst.tables[i].index : i \in DOMAIN inst.tables}
    \cup UNION {{inst.tables2d[i].rowindex, inst.tables2d[i].colindex} :
                  i \in DOMAIN inst.tables2d}

\* the free parameters whose value neither fv, the literals nor a table gives
C1_Omitted(inst, fv) ==
    {p \in Range(inst.free) :
        p \notin DOMAIN fv /\ p \notin DOMAIN inst.literal /\ p \notin TableSupplied(inst)}

\* C1: collect returns a mapping with every declared parameter as a key or
\* fails, and when a free parameter's value is omitted (and no literal or
\* table supplies it) it fails with the completeness error naming an omitted
\* parameter, also when that parameter is the index of a table.
C1_CompletenessError ==
    call.op = "collect" =>
        /\ out.ok => Inst(1).parameters \subseteq DOMAIN out.map
        /\ C1_Omitted(Inst(1), call.free) # {} =>
              /\ ~out.ok
              /\ out.err.exc = "KeyError"
              /\ Len(out.err.args) = 2
              /\ out.err.args[1] = NotCollected
              /\ out.err.args[2] \in C1_Omitted(Inst(1), call.free)

\* the row of the 1D table t for the key value v, as a mapping of its columns
C2_Row(t, v) ==
    [c \in Range(t.columns) |->
        t.data[v.s][CHOOSE i \in DOMAIN t.columns :
                       t.columns[i] = c /\ \A j \in DOMAIN t.columns : j > i => t.columns[j] # c]]

\* the mapping accumulated once the first n 1D tables are merged in
RECURSIVE C2_After1D(_, _, _)
C2_After1D(inst, fv, n) ==
    IF n = 0
    THEN [p \in (DOMAIN inst.literal) \cup (DOMAIN fv) |->
            IF p \in DOMAIN fv THEN fv[p] ELSE inst.literal[p]]
    ELSE LET before == C2_After1D(inst, fv, n - 1)
             t == inst.tables[n]
             row == C2_Row(t, before[t.index])
         IN [p \in (DOMAIN before) \cup (DOMAIN row) |->
                IF p \in DOMAIN row THEN row[p] ELSE before[p]]

\* the mapping accumulated once the first n 2D tables are merged in as well
RECURSIVE C2_After2D(_, _, _)
C2_After2D(inst, fv, n) ==
    IF n = 0 THEN C2_After1D(inst, fv, Len(inst.tables))
    ELSE LET before == C2_After2D(inst, fv, n - 1)
             t == inst.tables2d[n]
             col == CHOOSE i \in DOMAIN t.columns :
                       /\ t.columns[i] = before[t.colindex].s
                       /\ \A j \in 1..(i - 1) : t.columns[j] # before[t.colindex].s
         IN [p \in (DOMAIN before) \cup {t.result} |->
                IF p = t.result THEN t.data[before[t.rowindex].s][col] ELSE before[p]]

\* C2: a successful collect returns the literal values overlaid by the
\* supplied free values, then by the row of each 1D table (in declaration
\* order, looked up by the index value accumulated so far), then by the
\* result of each 2D table, a later source winning; with no tables the
\* result is exactly the literal values overlaid by the free values.
C2_OverlayOrder ==
    (call.op = "collect" /\ out.ok) =>
        /\ out.map = C2_After2D(Inst(1), call.free, Len(Inst(1).tables2d))
        /\ (Inst(1).tables = <<>> /\ Inst(1).tables2d = <<>>) =>
              /\ DOMAIN out.map = (DOMAIN Inst(1).literal) \cup (DOMAIN call.free)
              /\ \A p \in DOMAIN call.free : out.map[p] = call.free[p]
              /\ \A p \in (DOMAIN Inst(1).literal) \ (DOMAIN call.free) :
                    out.map[p] = Inst(1).literal[p]

\* a collect that succeeded with a free value over a literal of the same
\* name and a table column over another literal
C2_Witness ==
    /\ call.op = "collect" /\ out.ok
    /\ "size" \in (DOMAIN call.free) \cap (DOMAIN Inst(1).literal)
    /\ call.free["size"] # Inst(1).literal["size"]
    /\ "k" \in (DOMAIN Inst(1).literal) \cap TableSupplied(Inst(1))
    /\ out.map["k"] # Inst(1).literal["k"]

\* the values a wildcard stands for
WildcardDomain(inst, p) ==
    IF inst.types[p] = "Bool" THEN <<Bool(TRUE), Bool(FALSE)>>
    ELSE [j \in DOMAIN inst.choices[p] |-> Str(inst.choices[p][j])]

Discrete(inst, p) == inst.types[p] \in {"Bool", "Table Index"}

\* C3: without a common entry, when every free parameter is Bool or Table
\* Index the common list is the cross product of their domains (True before
\* False, a Table Index in the order of its choices), one value per free
\* parameter, the first varying slowest; with no free parameter it is one
\* empty tuple; with a free parameter of another type there is no list.
C3_DefaultCommon ==
    (slot[1].st = "ok" /\ ~decl[1].hasCommon) =>
        IF \A p \in Range(Inst(1).free) : Discrete(Inst(1), p)
        THEN /\ ~Inst(1).common.none
             /\ Inst(1).common.list =
                   CrossProduct([i \in DOMAIN Inst(1).free |->
                                    WildcardDomain(Inst(1), Inst(1).free[i])])
             /\ Inst(1).free = <<>> => Inst(1).common.list = << <<>> >>
        ELSE Inst(1).common.none

\* a Bool and a Table Index of three choices enumerated: six tuples
C3_Witness ==
    /\ slot[1].st = "ok" /\ ~decl[1].hasCommon
    /\ Inst(1).free = <<"b", "size">>
    /\ Len(Inst(1).common.list) = 6
    /\ Inst(1).common.list[1][1] = Bool(TRUE)
    /\ Inst(1).common.list[6][1] = Bool(FALSE)

\* C4: in every parameter set the default of every free parameter typed
\* Table Index is a member of that parameter's choices, whether the default
\* is an explicit entry or the built-in default of the type.
C4_DefaultInChoices ==
    slot[1].st = "ok" =>
        \A p \in Range(Inst(1).free) :
            Inst(1).types[p] = "Table Index" =>
                /\ p \in DOMAIN Inst(1).choices
                /\ Inst(1).defaults[p].k = "str"
                /\ Inst(1).defaults[p].s \in Range(Inst(1).choices[p])

\* the key sets of the tables that refer to p
C5_Sources(inst, p) ==
    {DOMAIN inst.tables[i].data : i \in {j \in DOMAIN inst.tables : inst.tables[j].index = p}}
    \cup {DOMAIN inst.tables2d[i].data :
            i \in {j \in DOMAIN inst.tables2d : inst.tables2d[j].rowindex = p}}
    \cup {Range(inst.tables2d[i].columns) :
            i \in {j \in DOMAIN inst.tables2d : inst.tables2d[j].colindex = p}}

\* digits, then possibly a point and digits
C5_IsNumber(t) ==
    /\ t # <<>> /\ t[1] \in Digits
    /\ \A i \in DOMAIN t : t[i] \in Digits \cup {"."}
    /\ Cardinality({i \in DOMAIN t : t[i] = "."}) <= 1

\* a key made of non-digits, a number and non-digits
C5_HasNumberForm(s) ==
    \E i \in 0..Len(s), j \in 1..Len(s) :
        /\ i < j
        /\ \A k \in 1..i : s[k] \notin Digits
        /\ C5_IsNumber(SubSeq(s, i + 1, j))
        /\ \A k \in (j + 1)..Len(s) : s[k] \notin Digits

\* the number in such a key, in units of 1/Scale
C5_Number(s) ==
    LET first == CHOOSE i \in DOMAIN s : s[i] \in Digits /\ \A j \in 1..(i - 1) : s[j] \notin Digits
        last == CHOOSE i \in DOMAIN s : s[i] \in Digits /\ \A j \in (i + 1)..Len(s) : s[j] \notin Digits
        text == SubSeq(s, first, last)
        whole == Span(text, Digits)
    IN DigitsToInt(Take(text, whole)) * Scale
       + DigitsToInt(Take(Drop(text, whole + 1) \o <<"0", "0">>, 2))

\* C5: after construction the choices of every free Table Index parameter
\* that a table refers to are a duplicate-free sequence of exactly the keys
\* common to every table referring to it, ascending by the number in the
\* key when every key has one (Numerical), else ascending as strings.
C5_ChoicesSorted ==
    slot[1].st = "ok" =>
        \A p \in Range(Inst(1).free) :
            (Inst(1).types[p] = "Table Index" /\ C5_Sources(Inst(1), p) # {}) =>
                /\ p \in DOMAIN Inst(1).choices
                /\ LET ch == Inst(1).choices[p]
                       srcs == C5_Sources(Inst(1), p)
                   IN /\ \A i, j \in DOMAIN ch : i # j => ch[i] # ch[j]
                      /\ Range(ch) = {k \in UNION srcs : \A S \in srcs : k \in S}
                      /\ IF \A i \in DOMAIN ch : C5_HasNumberForm(ch[i])
                         THEN \A i, j \in DOMAIN ch :
                                 i < j => C5_Number(ch[i]) <= C5_Number(ch[j])
                         ELSE \A i, j \in DOMAIN ch : i < j => LexLess(ch[i], ch[j])

\* M3 sorted before M10, against their order as strings
C5_Witness ==
    /\ slot[1].st = "ok"
    /\ "size" \in DOMAIN Inst(1).choices
    /\ Inst(1).choices["size"] = <<kM3, kM10>>
    /\ Len(Inst(1).tables) >= 2

\* the names two mappings give different values
C6_Differ(ma, mb) == {p \in (DOMAIN ma) \cap (DOMAIN mb) : ma[p] # mb[p]}

C6_Overlay(ma, mb) ==
    [p \in (DOMAIN ma) \cup (DOMAIN mb) |-> IF p \in DOMAIN mb THEN mb[p] ELSE ma[p]]

\* C6: union fails when a name of both operands has different types,
\* defaults or descriptions, with the error of that kind naming the
\* parameter and both values; when all shared names agree it raises none of
\* these errors and the result's types, defaults and description are the
\* union of the operands' mappings.
C6_UnionConflicts ==
    call.op = "union" =>
        LET A == Inst(1)
            B == Inst(2)
            ct == C6_Differ(A.types, B.types)
            cd == C6_Differ(A.defaults, B.defaults)
            cs == C6_Differ(A.description, B.description)
            e == slot[3].err
        IN IF ct \cup cd \cup cs # {}
           THEN /\ slot[3].st = "err"
                /\ \/ /\ e.exc = "IncompatibleTypeError"
                      /\ \E p \in ct : e.args = <<p, A.types[p], B.types[p]>>
                   \/ /\ e.exc = "IncompatibleDefaultError"
                      /\ \E p \in cd : e.args = <<p, A.defaults[p], B.defaults[p]>>
                   \/ /\ e.exc = "IncompatibleDescriptionError"
                      /\ \E p \in cs : e.args = <<p, A.description[p], B.description[p]>>
           ELSE /\ e.exc \notin {"IncompatibleTypeError", "IncompatibleDefaultError",
                                 "IncompatibleDescriptionError"}
                /\ slot[3].st = "ok" =>
                      /\ Inst(3).types = C6_Overlay(A.types, B.types)
                      /\ Inst(3).defaults = C6_Overlay(A.defaults, B.defaults)
                      /\ Inst(3).description = C6_Overlay(A.description, B.description)

\* a union that failed on the descriptions, the last of the three checks
C6_Witness ==
    /\ call.op = "union"
    /\ slot[3].st = "err"
    /\ slot[3].err.exc = "IncompatibleDescriptionError"

\* the containers a returned result must not share
C7_Private == {"literal", "free", "types", "defaults", "description", "choices"}

\* C7: union changes no attribute of either operand, whether it returns or
\* raises, and the literal, free, types, defaults, description and choices
\* of a returned result are new objects, shared with neither operand.
C7_OperandsUnchanged ==
    [][(call'.op = "union" /\ call.op # "union") =>
          /\ slot'[1] = slot[1] /\ slot'[2] = slot[2]
          /\ View(heap', slot[1].ref) = View(heap, slot[1].ref)
          /\ View(heap', slot[2].ref) = View(heap, slot[2].ref)
          /\ slot'[3].st = "ok" =>
                \A f \in C7_Private :
                    /\ slot'[3].ref[f] > Len(heap)
                    /\ \A g \in FieldSet :
                          /\ slot'[3].ref[f] # slot[1].ref[g]
                          /\ slot'[3].ref[f] # slot[2].ref[g]]_vars

\* a union that returned a literal mapping unlike that of its first operand
C7_Witness ==
    /\ call.op = "union"
    /\ slot[3].st = "ok"
    /\ Inst(3).literal # Inst(1).literal
    /\ Inst(3).choices # EmptyMap

C9_Domain(inst, sel, p) == IF sel.wild THEN WildcardDomain(inst, p) ELSE sel.vals

\* every wildcard of the common entry tup is for a Bool or a Table Index
C9_WildcardsDiscrete(inst, tup) ==
    \A i \in DOMAIN inst.free : (i \in DOMAIN tup /\ tup[i].wild) => Discrete(inst, inst.free[i])

\* C9: with a common list given, the resulting list is the concatenation,
\* in list order, of the cross product of each entry's selectors in the
\* order of the free parameters: one value per free parameter, from the
\* explicit values or, for a wildcard, from the choices (Table Index) or
\* True, False (Bool); an entry gives as many tuples as the product of the
\* sizes of its selectors.
C9_ExplicitCommon ==
    (slot[1].st = "ok" /\ decl[1].hasCommon
       /\ \A e \in DOMAIN decl[1].common : C9_WildcardsDiscrete(Inst(1), decl[1].common[e])) =>
        /\ ~Inst(1).common.none
        /\ Inst(1).common.list =
              Flatten([e \in DOMAIN decl[1].common |->
                         CrossProduct([i \in DOMAIN Inst(1).free |->
                                          C9_Domain(Inst(1), decl[1].common[e][i],
                                                    Inst(1).free[i])])])

\* two entries, explicit values in an order of their own and then a
\* wildcard: the two choices one way, then the other
C9_Witness ==
    /\ slot[1].st = "ok" /\ decl[1].hasCommon
    /\ Len(decl[1].common) = 2
    /\ Inst(1).free = <<"size">>
    /\ Inst(1).common.list = << <<Str(kM10)>>, <<Str(kM3)>>, <<Str(kM3)>>, <<Str(kM10)>> >>

\* the instance has no common entry, only Bool and Table Index free
\* parameters, and only free parameters as table indexes
C10_Applies ==
    /\ slot[1].st = "ok" /\ ~decl[1].hasCommon
    /\ \A p \in Range(Inst(1).free) : Discrete(Inst(1), p)
    /\ TableIndexes(Inst(1)) \subseteq Range(Inst(1).free)

\* collect was called with the values of a tuple of the common list
C10_CalledWithCommon ==
    /\ call.op = "collect"
    /\ \E j \in DOMAIN Inst(1).common.list :
          /\ DOMAIN call.free = Range(Inst(1).free)
          /\ \A i \in DOMAIN Inst(1).free :
                call.free[Inst(1).free[i]] = Inst(1).common.list[j][i]

\* C10 as stated: for a parameter set with no common entry, only Bool and
\* Table Index free parameters and only free parameters as table indexes,
\* collect of every tuple of the common list succeeds and returns a mapping
\* whose keys are exactly the parameters.
C10_CommonCollects ==
    (C10_Applies /\ C10_CalledWithCommon) =>
        out.ok /\ DOMAIN out.map = Inst(1).parameters

\* C10 amended: the same, provided that no table column and no 2D table
\* result is a parameter that a table is looked up by.
C10_CommonCollectsAmended ==
    (C10_Applies /\ C10_CalledWithCommon
       /\ TableSupplied(Inst(1)) \cap TableIndexes(Inst(1)) = {}) =>
        out.ok /\ DOMAIN out.map = Inst(1).parameters

\* a tuple collected through two 1D tables and a 2D table
C10_Witness ==
    /\ C10_Applies /\ C10_CalledWithCommon
    /\ TableSupplied(Inst(1)) \cap TableIndexes(Inst(1)) = {}
    /\ Len(Inst(1).tables) = 2 /\ Len(Inst(1).tables2d) >= 1
    /\ Inst(1).tables[1] # Inst(1).tables[2]
    /\ out.ok

\* ch is ascending by the number in the key when every key has one, else
\* ascending as strings
C11_Ascending(ch) ==
    IF \A i \in DOMAIN ch : C5_HasNumberForm(ch[i])
    THEN \A i, j \in DOMAIN ch : i < j => C5_Number(ch[i]) <= C5_Number(ch[j])
    ELSE \A i, j \in DOMAIN ch : i < j => LexLess(ch[i], ch[j])

\* C11: the parameter set union returns has a common list of exactly one
\* empty tuple, whatever the operands' free parameters and common lists;
\* its free list is A's names followed by B's, duplicates kept; its literal
\* mapping is A's overlaid by B's; its choices for a name are the sorted
\* intersection of the operands' choices, or the one operand's that has it.
C11_UnionResult ==
    (call.op = "union" /\ slot[3].st = "ok") =>
        LET A == Inst(1)
            B == Inst(2)
            R == Inst(3)
        IN /\ ~R.common.none /\ R.common.list = << <<>> >>
           /\ R.free = A.free \o B.free
           /\ R.literal = [p \in (DOMAIN A.literal) \cup (DOMAIN B.literal) |->
                              IF p \in DOMAIN B.literal THEN B.literal[p] ELSE A.literal[p]]
           /\ DOMAIN R.choices = (DOMAIN A.choices) \cup (DOMAIN B.choices)
           /\ \A p \in DOMAIN R.choices :
                 /\ \A i, j \in DOMAIN R.choices[p] : i # j => R.choices[p][i] # R.choices[p][j]
                 /\ Range(R.choices[p]) =
                       {k \in Range((IF p \in DOMAIN A.choices THEN A ELSE B).choices[p]) :
                           /\ p \in DOMAIN A.choices => k \in Range(A.choices[p])
                           /\ p \in DOMAIN B.choices => k \in Range(B.choices[p])}
                 /\ C11_Ascending(R.choices[p])

\* a union of operands whose common lists are not the empty tuple, whose
\* literals differ in a value and whose choices differ in a key
C11_Witness ==
    /\ call.op = "union" /\ slot[3].st = "ok"
    /\ Inst(1).free # <<>> /\ Inst(2).free # <<>>
    /\ Inst(1).common # Inst(3).common
    /\ "k" \in (DOMAIN Inst(1).literal) \cap (DOMAIN Inst(2).literal)
    /\ Inst(1).literal["k"] # Inst(2).literal["k"]
    /\ "size" \in (DOMAIN Inst(1).choices) \cap (DOMAIN Inst(2).choices)
    /\ Inst(1).choices["size"] # Inst(2).choices["size"]
    /\ Inst(3).choices["size"] = <<kM3, kM10>>
====
